---------------------------- MODULE Spec2Model ----------------------------
(***************************************************************************)
(* Query orchestration and confidence-gated retrieval of the finance       *)
(* assistant: orchestrator.py (orchestrate_query, get_market_brief), the   *)
(* Alpha Vantage wrapper of api_agent.py, the retriever of                 *)
(* retriever_agent.py, the news mock of scraping_agent.py and the cached   *)
(* market-brief slot of backend.py.                                        *)
(*                                                                         *)
(* Text is a sequence of one-character strings.  A response is a sequence  *)
(* of lines, a line a sequence of string fragments.  A Python dict is a    *)
(* function whose DOMAIN is the set of keys present.                       *)
(***************************************************************************)
EXTENDS Integers, Sequences, FiniteSets, TLC

(***************************************************************************)
(* Bounds of the model.                                                    *)
(***************************************************************************)
MaxPieces == 3
MaxSeries == 8
MaxIndex == 2

(***************************************************************************)
(* Characters and text helpers (Python str methods).                       *)
(***************************************************************************)
Uppers == <<"A","B","C","D","E","F","G","H","I","J","K","L","M",
            "N","O","P","Q","R","S","T","U","V","W","X","Y","Z">>
Lowers == <<"a","b","c","d","e","f","g","h","i","j","k","l","m",
            "n","o","p","q","r","s","t","u","v","w","x","y","z">>
Digits == {"0","1","2","3","4","5","6","7","8","9"}

Range(s) == {s[i] : i \in DOMAIN s}

UpperSet == Range(Uppers)

IsUpper(c) == c \in UpperSet

\* \w of the re module: letters, digits, underscore
WordChars == Range(Uppers) \cup Range(Lowers) \cup Digits \cup {"_"}

IsWordChar(c) == c \in WordChars

\* str.isspace() for the characters of the model
IsSpace(c) == c \in {" ", "\n", "\t"}

LowerOf ==
  [c \in UpperSet |-> Lowers[CHOOSE i \in DOMAIN Uppers : Uppers[i] = c]]

LowerChar(c) == IF IsUpper(c) THEN LowerOf[c] ELSE c

\* str.lower()
Lower(s) == [i \in DOMAIN s |-> LowerChar(s[i])]

\* s[i:i+len(w)] == w
OccursAt(s, w, i) ==
  /\ i >= 1
  /\ i + Len(w) - 1 <= Len(s)
  /\ \A j \in 1..Len(w) : s[i + j - 1] = w[j]

\* w in s
Contains(s, w) == \E i \in 1..(Len(s) + 1) : OccursAt(s, w, i)

\* str.replace(old, ""): non-overlapping occurrences, left to right
RECURSIVE RemoveAllFrom(_, _, _)
RemoveAllFrom(s, old, i) ==
  IF i > Len(s) THEN <<>>
  ELSE IF OccursAt(s, old, i) THEN RemoveAllFrom(s, old, i + Len(old))
  ELSE <<s[i]>> \o RemoveAllFrom(s, old, i + 1)

RemoveAll(s, old) == RemoveAllFrom(s, old, 1)

\* str.strip()
Strip(s) ==
  LET keep == {i \in DOMAIN s : ~IsSpace(s[i])}
  IN  IF keep = {} THEN <<>>
      ELSE LET lo == CHOOSE i \in keep : \A j \in keep : i <= j
               hi == CHOOSE i \in keep : \A j \in keep : i >= j
           IN  SubSeq(s, lo, hi)

\* sep.join(parts) for a sequence of texts
RECURSIVE Join(_, _)
Join(parts, sep) ==
  IF parts = <<>> THEN <<>>
  ELSE IF Len(parts) = 1 THEN parts[1]
  ELSE parts[1] \o sep \o Join(Tail(parts), sep)

Min(a, b) == IF a < b THEN a ELSE b
Max(a, b) == IF a > b THEN a ELSE b

(***************************************************************************)
(* orchestrator.py line 39: the ticker pattern                             *)
(*   (price|quote|stock|performance|historical).*?\b([A-Z]{1,5})\b         *)
(* searched in the query as typed (not lower-cased).                       *)
(***************************************************************************)
Triggers == << <<"p","r","i","c","e">>,
               <<"q","u","o","t","e">>,
               <<"s","t","o","c","k">>,
               <<"p","e","r","f","o","r","m","a","n","c","e">>,
               <<"h","i","s","t","o","r","i","c","a","l">> >>

\* {1,5}: the longest run of capitals the pattern accepts
MaxTickerLen == 5

\* the character before position p (p = 1: start) and at p (p = Len+1: end)
\* differ in being word characters: \b
WordBoundary(q, p) ==
  LET before == p > 1 /\ p - 1 <= Len(q) /\ IsWordChar(q[p - 1])
      after  == p >= 1 /\ p <= Len(q) /\ IsWordChar(q[p])
  IN  before # after

\* . matches every character but a line break (no re.DOTALL)
Dot(c) == c # "\n"

\* the lengths m for which [A-Z]{m}\b matches at j
TokenLens(q, j) ==
  {m \in 1..MaxTickerLen :
     /\ j + m - 1 <= Len(q)
     /\ \A i \in j..(j + m - 1) : IsUpper(q[i])
     /\ WordBoundary(q, j + m)}

\* the positions j where .*?\b([A-Z]{1,5})\b can place its group, the
\* pattern's first group having ended before position e
TokenStarts(q, e) ==
  {j \in e..Len(q) :
     /\ \A i \in e..(j - 1) : Dot(q[i])
     /\ WordBoundary(q, j)
     /\ TokenLens(q, j) # {}}

\* the triggers (by index) that match at position s
TriggersAt(q, s) == {t \in DOMAIN Triggers : OccursAt(q, Triggers[t], s)}

\* the pattern matches with its first character at s
MatchesAt(q, s) ==
  \E t \in TriggersAt(q, s) : TokenStarts(q, s + Len(Triggers[t])) # {}

\* re.search: the leftmost start, the first alternative, the lazy .*?, the
\* greedy {1,5}.  [found, start, trigger, pos, ticker]
StockMatch(q) ==
  LET starts == {s \in 1..Len(q) : MatchesAt(q, s)}
  IN  IF starts = {} THEN [found |-> FALSE, start |-> 0, trigger |-> 0,
                           pos |-> 0, ticker |-> <<>>]
      ELSE LET s == CHOOSE x \in starts : \A y \in starts : x <= y
               ts == {t \in TriggersAt(q, s) :
                        TokenStarts(q, s + Len(Triggers[t])) # {}}
               t == CHOOSE x \in ts : \A y \in ts : x <= y
               js == TokenStarts(q, s + Len(Triggers[t]))
               j == CHOOSE x \in js : \A y \in js : x <= y
               ms == TokenLens(q, j)
               m == CHOOSE x \in ms : \A y \in ms : x >= y
           IN  [found |-> TRUE, start |-> s, trigger |-> t, pos |-> j,
                ticker |-> SubSeq(q, j, j + m - 1)]

(***************************************************************************)
(* Numbers in text.                                                        *)
(***************************************************************************)
DigitChars == <<"0","1","2","3","4","5","6","7","8","9">>

\* str(n) for n >= 0, one character per element
RECURSIVE IntDigits(_)
IntDigits(n) ==
  IF n < 10 THEN <<DigitChars[n + 1]>>
  ELSE IntDigits(n \div 10) \o <<DigitChars[(n % 10) + 1]>>

\* the value num/den (den > 0) in hundredths, rounded to the nearest, a tie
\* to the even neighbour: what the format spec .2f prints
RoundHundredths(num, den) ==
  LET a == (IF num < 0 THEN -num ELSE num) * 100
      q == a \div den
      r == a % den
  IN  IF 2 * r > den THEN q + 1
      ELSE IF 2 * r = den THEN q + (q % 2)
      ELSE q

\* f"{num/den:.2f}"
Fmt2(num, den) ==
  LET h == RoundHundredths(num, den)
  IN  (IF num < 0 THEN <<"-">> ELSE <<>>)
      \o IntDigits(h \div 100)
      \o <<".", DigitChars[((h % 100) \div 10) + 1], DigitChars[(h % 10) + 1]>>

(***************************************************************************)
(* api_agent.py: the Alpha Vantage wrapper.  An upstream answer is         *)
(* [ok, body]: ok is FALSE when the request itself fails (connection,      *)
(* HTTP status, no JSON); body is the JSON object.  The wrapper's outcome  *)
(* is [raised, data].                                                      *)
(***************************************************************************)
EmptyDict == <<>>

Raised == [raised |-> TRUE, data |-> EmptyDict]

Returned(d) == [raised |-> FALSE, data |-> d]

\* lines 27-43 (the API key is set: line 18 does not raise)
fetch_alpha_vantage_data(up) ==
  IF ~up.ok THEN Raised
  ELSE IF "Error Message" \in DOMAIN up.body THEN Raised
  ELSE IF "Note" \in DOMAIN up.body THEN Returned(EmptyDict)
  ELSE Returned(up.body)

\* lines 45-46
get_stock_quote(up) == fetch_alpha_vantage_data(up)

\* lines 48-49
get_historical_data(up) == fetch_alpha_vantage_data(up)

\* data.get(key) is truthy, for a key that holds a text
TruthyText(data, key) == key \in DOMAIN data /\ data[key] # ""

\* data.get(key) is truthy, for a key that holds a dict or a list
TruthyColl(data, key) == key \in DOMAIN data /\ DOMAIN data[key] # {}

\* str(d.get(key)) inside an f-string
GetOrNone(d, key) == IF key \in DOMAIN d THEN d[key] ELSE "None"

\* d.get(key, "N/A")
GetOrNA(d, key) == IF key \in DOMAIN d THEN d[key] ELSE "N/A"

\* a response that is one text, returned as it was received
Verbatim(text) == << <<text>> >>

(***************************************************************************)
(* scraping_agent.py: the news mock.                                       *)
(***************************************************************************)
MOCK_MARKET ==
  << "Global markets show mixed signals as inflation concerns persist.",
     "Tech stocks lead rally; S&P 500 hits new high.",
     "Oil prices surge amidst geopolitical tensions.",
     "Central banks hint at potential interest rate changes." >>

MOCK_COMPANY ==
  << [key |-> <<"A","A","P","L">>, news |->
       << "Apple announces record quarterly earnings, driven by iPhone sales.",
          "Analysts raise price targets for AAPL after new product unveiling.",
          "Apple faces antitrust scrutiny in Europe." >>],
     [key |-> <<"G","O","O","G","L">>, news |->
       << "Google invests heavily in AI research and development.",
          "Alphabet beats revenue estimates, cloud growth impresses.",
          "Google's ad business shows resilience despite market slowdown." >>],
     [key |-> <<"M","S","F","T">>, news |->
       << "Microsoft expands cloud services, invests in AI partnerships.",
          "Windows 12 rumors surface ahead of major Microsoft event.",
          "Microsoft acquires leading gaming studio for undisclosed sum." >>] >>

MOCK_DEFAULT ==
  << "Top financial analysts share their 2024 predictions.",
     "Understanding the basics of personal finance and investment.",
     "Cryptocurrency market experiences high volatility.",
     "Real estate market trends: What to expect next quarter." >>

\* lines 42-58
get_financial_news_mock(query_term) ==
  LET query_lower == Lower(query_term)
      hits == {i \in DOMAIN MOCK_COMPANY :
                 Contains(query_lower, Lower(MOCK_COMPANY[i].key))}
  IN  IF hits # {}
      THEN MOCK_COMPANY[CHOOSE i \in hits : \A j \in hits : i <= j].news
      ELSE IF Contains(query_lower, <<"m","a","r","k","e","t">>) THEN MOCK_MARKET
      ELSE MOCK_DEFAULT

(***************************************************************************)
(* retriever_agent.py.  The index holds the texts added to it, in order;   *)
(* the seed corpus, joined, is shorter than one chunk (698 < 1000          *)
(* characters) and enters as one text.  A distance is in hundredths.       *)
(***************************************************************************)
SeedChunk == "SEED_CORPUS"

\* 1.0 in hundredths (line 84)
One == 100

\* k of retrieve_info_from_rag (line 60)
RetrieveK == 2

SentinelText == <<"No relevant documents found.">>

\* the texts of a list of documents after split_text (lines 48-49): each
\* modelled document fits one chunk
SplitTexts(documents) == documents

\* lines 51-57: [created, texts] of the global store
create_faiss_index(store, documents) ==
  IF ~store.created
  THEN [created |-> TRUE, texts |-> SplitTexts(documents)]
  ELSE [created |-> TRUE, texts |-> store.texts \o SplitTexts(documents)]

\* the positions of texts ordered by distance, the earlier entry first
\* among equals
RECURSIVE RankFrom(_, _, _)
RankFrom(texts, d, left) ==
  IF left = {} THEN <<>>
  ELSE LET best == CHOOSE i \in left :
                     \A j \in left :
                        \/ d[texts[i]] < d[texts[j]]
                        \/ (d[texts[i]] = d[texts[j]] /\ i <= j)
       IN  <<best>> \o RankFrom(texts, d, left \ {best})

\* similarity_search_with_score(query, k): the k nearest entries as
\* [text, score], nearest first
NearestK(texts, d, k) ==
  LET ranked == RankFrom(texts, d, DOMAIN texts)
  IN  [i \in 1..Min(k, Len(ranked)) |->
         [text |-> texts[ranked[i]], score |-> d[texts[ranked[i]]]]]

\* the heuristic without its max(0, ...)
RECURSIVE ConfidencesUnclamped(_)
ConfidencesUnclamped(docs_with_scores) ==
  IF docs_with_scores = <<>> THEN <<>>
  ELSE <<One - docs_with_scores[1].score>>
       \o ConfidencesUnclamped(Tail(docs_with_scores))

\* lines 82-85: the list scores
RECURSIVE Confidences(_)
Confidences(docs_with_scores) ==
  IF docs_with_scores = <<>> THEN <<>>
  ELSE <<Max(0, One - docs_with_scores[1].score)>>
       \o Confidences(Tail(docs_with_scores))

RECURSIVE SumSeq(_)
SumSeq(xs) == IF xs = <<>> THEN 0 ELSE xs[1] + SumSeq(Tail(xs))

\* the empty result reported with full confidence instead of 0.0
RetrieveResultSentinelTrusted(docs_with_scores) ==
  IF docs_with_scores = <<>>
  THEN [content |-> SentinelText, num |-> 1, den |-> 1]
  ELSE LET scores == Confidences(docs_with_scores)
       IN  [content |->
              Join([i \in DOMAIN docs_with_scores |->
                      <<docs_with_scores[i].text>>], <<"\n\n">>),
            num |-> SumSeq(scores),
            den |-> One * Len(scores)]

\* lines 76-92, from the matches on: [content, num, den], the confidence
\* being num/den
RetrieveResult(docs_with_scores) ==
  IF docs_with_scores = <<>>
  THEN [content |-> SentinelText, num |-> 0, den |-> 1]
  ELSE LET scores == Confidences(docs_with_scores)
       IN  [content |->
              Join([i \in DOMAIN docs_with_scores |->
                      <<docs_with_scores[i].text>>], <<"\n\n">>),
            num |-> SumSeq(scores),
            den |-> One * Len(scores)]

(***************************************************************************)
(* orchestrator.py: orchestrate_query, the parts between its awaits.       *)
(***************************************************************************)
UpperOf ==
  [c \in Range(Lowers) |-> Uppers[CHOOSE i \in DOMAIN Lowers : Lowers[i] = c]]

UpperChar(c) == IF c \in DOMAIN UpperOf THEN UpperOf[c] ELSE c

\* str.upper()
Upper(s) == [i \in DOMAIN s |-> UpperChar(s[i])]

HistoricalWords == {<<"h","i","s","t","o","r","i","c","a","l">>, <<"p","e","r","f","o","r","m","a","n","c","e">>}
NewsWords == {<<"n","e","w","s">>, <<"h","e","a","d","l","i","n","e","s">>, <<"f","i","l","i","n","g","s">>}
AnalysisWords == {<<"a","n","a","l","y","z","e">>, <<"r","i","s","k">>, <<"v","o","l","a","t","i","l","i","t","y">>, <<"r","e","t","u","r","n","s">>, <<"p","o","r","t","f","o","l","i","o">>}
ExplainWords == {<<"e","x","p","l","a","i","n">>, <<"w","h","a","t"," ","i","s">>, <<"t","e","l","l"," ","m","e"," ","a","b","o","u","t">>, <<"d","e","f","i","n","e">>}

ContainsAny(s, words) == \E w \in words : Contains(s, w)

\* the chain with the news test moved before the ticker pattern
RouteNewsFirst(q) ==
  IF ContainsAny(Lower(q), NewsWords) THEN "News"
  ELSE IF StockMatch(q).found
  THEN IF ContainsAny(Lower(q), HistoricalWords) THEN "Historical" ELSE "Quote"
  ELSE IF ContainsAny(Lower(q), AnalysisWords) THEN "Analysis"
  ELSE IF ContainsAny(Lower(q), ExplainWords) THEN "Explain"
  ELSE "Unclassified"

\* lines 39-128: the branch of the if/elif chain a query takes
Route(q) ==
  IF StockMatch(q).found
  THEN IF ContainsAny(Lower(q), HistoricalWords) THEN "Historical" ELSE "Quote"
  ELSE IF ContainsAny(Lower(q), NewsWords) THEN "News"
  ELSE IF ContainsAny(Lower(q), AnalysisWords) THEN "Analysis"
  ELSE IF ContainsAny(Lower(q), ExplainWords) THEN "Explain"
  ELSE "Unclassified"

\* line 41
TickerOf(q) == Upper(StockMatch(q).ticker)

\* line 94
NewsQueryTerm(q) ==
  Strip(RemoveAll(RemoveAll(Lower(q), <<"n","e","w","s"," ","a","b","o","u","t">>), <<"l","a","t","e","s","t"," ","n","e","w","s"," ","o","n">>))

\* line 105
tickers_for_analysis == <<"AAPL", "GOOGL">>

\* what a stretch of orchestrate_query ends with: a returned text or an
\* exception
Answered(r) == [raised |-> FALSE, response |-> r]

\* a dispatcher that answers a failure with a text of its own
FailedAsFallback ==
  [raised |-> FALSE,
   response |-> << <<"Sorry, something went wrong. Please try again.">> >>]

Failed == [raised |-> TRUE, response |-> <<>>]

\* the first collaborator call of each branch: [fn, arg]
FirstCall(q) ==
  LET r == Route(q)
  IN  IF r = "Historical" THEN [fn |-> "get_historical_data", arg |-> TickerOf(q)]
      ELSE IF r = "Quote" THEN [fn |-> "get_stock_quote", arg |-> TickerOf(q)]
      ELSE IF r = "News"
        THEN [fn |-> "get_financial_news_mock", arg |-> NewsQueryTerm(q)]
      ELSE IF r = "Analysis"
        THEN [fn |-> "analyze_risk_volatility_returns", arg |-> tickers_for_analysis]
      ELSE IF r = "Explain" THEN [fn |-> "retrieve_info_from_rag", arg |-> q]
      ELSE [fn |-> "generate_text_with_gemini",
            arg |-> <<"User asked: ">> \o q
                    \o <<". Please respond as a financial assistant.">>]

\* line 54: the closes of the first seven dates
WindowLen == 7

\* every close of the series, the window of line 54 dropped
PricesWhole(ts) == [i \in 1..Len(ts) |-> ts[i].close]

\* lines 54-55
Prices(ts) == [i \in 1..Min(WindowLen, Len(ts)) |-> ts[i].close]

\* lines 47-64: [raised, response] for the wrapper's answer data; the
\* division of line 57 raises ZeroDivisionError when prices[-1] is 0
HistoricalOutcome(ticker, data) ==
  IF TruthyText(data, "Note") THEN Answered(Verbatim(data["Note"]))
  ELSE IF TruthyText(data, "Information")
    THEN Answered(Verbatim(data["Information"]))
  ELSE IF TruthyColl(data, "Time Series (Daily)")
    THEN LET ts == data["Time Series (Daily)"]
             latest_date == ts[1].date
             latest_close == IntDigits(ts[1].close)
             prices == Prices(ts)
         IN  IF Len(prices) > 1
             THEN IF prices[Len(prices)] = 0 THEN Failed
                  ELSE Answered(<<
                         <<"Historical performance for ">> \o ticker
                         \o <<": Latest close on ", latest_date, " was ">>
                         \o latest_close
                         \o <<". Over the last ">> \o IntDigits(Len(prices))
                         \o <<" days, it changed by ">>
                         \o Fmt2((prices[1] - prices[Len(prices)]) * 100,
                                 prices[Len(prices)])
                         \o <<"%.">> >>)
             ELSE Answered(<<
                    <<"Latest close for ">> \o ticker
                    \o <<" on ", latest_date, " was ">> \o latest_close
                    \o <<".">> >>)
  ELSE Answered(<< <<"Could not retrieve historical data for ">> \o ticker
                   \o <<".">> >>)

\* the branch with the payload looked at before the note and the information
QuoteOutcomePayloadFirst(ticker, data) ==
  IF TruthyColl(data, "Global Quote")
  THEN LET quote_info == data["Global Quote"]
       IN  Answered(<<
             ticker \o <<" Stock Quote:">>,
             <<"Open: ", GetOrNone(quote_info, "02. open")>>,
             <<"High: ", GetOrNone(quote_info, "03. high")>>,
             <<"Low: ", GetOrNone(quote_info, "04. low")>>,
             <<"Price: ", GetOrNone(quote_info, "05. price")>>,
             <<"Volume: ", GetOrNone(quote_info, "06. volume")>>,
             <<"Last Trading Day: ",
               GetOrNone(quote_info, "07. latest trading day")>> >>)
  ELSE IF TruthyText(data, "Note") THEN Answered(Verbatim(data["Note"]))
  ELSE IF TruthyText(data, "Information")
    THEN Answered(Verbatim(data["Information"]))
  ELSE Answered(<< <<"Could not retrieve live quote for ">> \o ticker
                   \o <<".">> >>)

\* lines 72-89
QuoteOutcome(ticker, data) ==
  IF TruthyText(data, "Note") THEN Answered(Verbatim(data["Note"]))
  ELSE IF TruthyText(data, "Information")
    THEN Answered(Verbatim(data["Information"]))
  ELSE IF TruthyColl(data, "Global Quote")
    THEN LET quote_info == data["Global Quote"]
         IN  Answered(<<
               ticker \o <<" Stock Quote:">>,
               <<"Open: ", GetOrNone(quote_info, "02. open")>>,
               <<"High: ", GetOrNone(quote_info, "03. high")>>,
               <<"Low: ", GetOrNone(quote_info, "04. low")>>,
               <<"Price: ", GetOrNone(quote_info, "05. price")>>,
               <<"Volume: ", GetOrNone(quote_info, "06. volume")>>,
               <<"Last Trading Day: ",
                 GetOrNone(quote_info, "07. latest trading day")>> >>)
  ELSE Answered(<< <<"Could not retrieve live quote for ">> \o ticker
                   \o <<".">> >>)

\* the answer cut to the first three headlines
NewsResponseTop3(news) ==
  IF news # <<>>
  THEN << <<"Latest News:">> >>
       \o [i \in 1..Min(3, Len(news)) |-> <<"- ", news[i]>>]
  ELSE << <<"Could not retrieve financial news at this time.">> >>

\* lines 96-100
NewsResponse(news) ==
  IF news # <<>>
  THEN << <<"Latest News:">> >> \o [i \in DOMAIN news |-> <<"- ", news[i]>>]
  ELSE << <<"Could not retrieve financial news at this time.">> >>

\* analysis_agent.py lines 53-75 on the mock prices: one entry per ticker
analyze_risk_volatility_returns(tickers) ==
  [i \in DOMAIN tickers |-> <<tickers[i], ": metrics of the mock prices">>]

\* line 107
AnalysisResponse(tickers, analysis_result) ==
  << <<"Financial Analysis for ">> \o Join([i \in DOMAIN tickers |-> <<tickers[i]>>],
                                          <<", ">>) \o <<":">> >>
  \o analysis_result

\* the comparison with <= in place of <: 0.7 itself counts as low
LowConfidenceInclusive(num, den) == 10 * num <= 7 * den

\* line 114: confidence_score < 0.7, the confidence being num/den
LowConfidence(num, den) == 10 * num < 7 * den

\* lines 116 and 120: the prompt of the Explain branch
ExplainPrompt(q, retrieved) ==
  IF LowConfidence(retrieved.num, retrieved.den)
  THEN <<"Explain this concept: ">> \o q
  ELSE <<"Explain this based on context:\n\n">> \o retrieved.content
       \o <<"\n\nUser asked: ">> \o q

LowHeader == <<"I couldn't find very specific info, but here's what I know:">>
FoundHeader == <<"Here's what I found:">>

\* lines 117, 122 and 128: the answer made of the generated text
GeneratedResponse(path, retrieved, text) ==
  IF path = "Explain"
  THEN IF LowConfidence(retrieved.num, retrieved.den)
       THEN <<LowHeader, <<>>, <<text>> >>
       ELSE <<FoundHeader, <<>>, <<text>> >>
  ELSE Verbatim(text)

(***************************************************************************)
(* The environment: what the callers send and what the providers answer.   *)
(***************************************************************************)
NoteText == "Thank you for using Alpha Vantage! Our standard API rate limit is 25 requests per day."
InfoText == "Please consider a premium plan to lift the rate limit."

FullQuote ==
  ("01. symbol" :> "SYM") @@ ("02. open" :> "10.00") @@ ("03. high" :> "12.00")
  @@ ("04. low" :> "9.00") @@ ("05. price" :> "11.00") @@ ("06. volume" :> "5000")
  @@ ("07. latest trading day" :> "2024-06-10") @@ ("09. change" :> "1.00")

PartialQuote == ("01. symbol" :> "SYM") @@ ("03. high" :> "12.00")

\* a key that is absent, or present with one of the values
Optional(key, values) == {EmptyDict} \cup {key :> v : v \in values}

SignalDicts ==
  {e @@ n @@ i :
     e \in Optional("Error Message", {"Invalid API call."}),
     n \in Optional("Note", {"", NoteText}),
     i \in Optional("Information", {InfoText})}

\* the answers of GLOBAL_QUOTE
QuoteUpstreams ==
  {[ok |-> FALSE, body |-> EmptyDict]}
  \cup {[ok |-> TRUE, body |-> sig @@ g] :
          sig \in SignalDicts,
          g \in Optional("Global Quote", {EmptyDict, PartialQuote, FullQuote})}

Dates == <<"2024-06-12", "2024-06-11", "2024-06-10", "2024-06-09", "2024-06-08",
           "2024-06-07", "2024-06-06", "2024-06-05", "2024-06-04", "2024-06-03",
           "2024-06-02", "2024-06-01">>

\* the daily closes a provider can hold, most recent first
Closes == {0, 1, 3}

SeriesUpTo(n) == UNION {[1..k -> Closes] : k \in 0..n}

\* the JSON object "Time Series (Daily)": date -> close, in key order
TimeSeries(closes) == [i \in DOMAIN closes |-> [date |-> Dates[i], close |-> closes[i]]]

\* the answers of TIME_SERIES_DAILY when the provider holds closes
HistoricalUpstreams(closes) ==
  {[ok |-> FALSE, body |-> EmptyDict]}
  \cup {[ok |-> TRUE, body |-> sig @@ t] :
          sig \in SignalDicts,
          t \in Optional("Time Series (Daily)", {TimeSeries(closes)})}

\* of a provider's answer: whether it arrived, whether it is an error
\* message, and the note and information texts it carries
UpstreamSummary(up) ==
  [ok |-> up.ok,
   error |-> "Error Message" \in DOMAIN up.body,
   signals |-> {up.body[k] : k \in {key \in {"Note", "Information"} :
                                       TruthyText(up.body, key)}}]

\* distances of a query to a text, in hundredths
Distances == {0, 30, 31, 60, 150}

Documents == {"DOCUMENT_A"}

ChunkTexts == {SeedChunk} \cup Documents

\* what generation answers: [raised, text]
GenTexts == {"generated text A", "generated text B"}
GenOutcomes ==
  {[raised |-> TRUE, text |-> ""]} \cup {[raised |-> FALSE, text |-> t] : t \in GenTexts}

SampleQueries ==
  { <<"W","h","a","t","'","s"," ","t","h","e"," ","p","r","i","c","e"," ","o","f"," ","T","S","L","A","?">>,
    <<"h","i","s","t","o","r","i","c","a","l"," ","A","A","P","L">>,
    <<"n","e","w","s"," ","a","b","o","u","t"," ","G","O","O","G","L">>,
    <<"l","a","t","e","s","t"," ","n","e","w","s"," ","o","n"," ","m","a","r","k","e","t">>,
    <<"a","n","a","l","y","z","e"," ","r","i","s","k">>,
    <<"T","e","l","l"," ","m","e"," ","a","b","o","u","t"," ","d","i","v","e","r","s","i","f","i","c","a","t","i","o","n">>,
    <<"h","e","l","l","o">>,
    <<"s","t","o","c","k"," ","n","e","w","s"," ","M","S","F","T">> }

\* fragments a query is put together from
Pieces ==
  { <<"p","r","i","c","e"," ">>,
    <<"h","i","s","t","o","r","i","c","a","l"," ">>,
    <<"n","e","w","s"," ">>,
    <<"r","i","s","k"," ">>,
    <<"d","e","f","i","n","e"," ">>,
    <<"G","O","O","G","L"," ">>,
    <<"A"," ">>,
    <<"A">>,
    <<"\n">> }

RECURSIVE QueriesOf(_)
QueriesOf(n) ==
  IF n = 0 THEN {<<>>}
  ELSE LET shorter == QueriesOf(n - 1)
       IN  shorter \cup {q \o p : q \in shorter, p \in Pieces}

(***************************************************************************)
(* State.                                                                  *)
(***************************************************************************)
VARIABLES
  query,              \* the text handed to orchestrate_query
  series,             \* the closes the data provider holds
  dist,               \* the distance of the query to each text of the index
  h_pc,               \* where orchestrate_query is: "start", the function it
                      \* awaits, "done" or "failed" (it raised)
  h_path,             \* the branch taken
  h_ticker,           \* ticker (line 41)
  h_calls,            \* the collaborator calls issued, in order: [fn, arg]
  h_retrieved,        \* (retrieved_content, confidence_score) of line 113
  h_response,         \* the value returned
  h_upstream,         \* what the provider answered to the quote or
                      \* historical request: <<[ok, error, signals]>>
  h_data,             \* what the wrapper then gave: <<[raised, data]>>
  h_docs,             \* docs_with_scores (retriever_agent.py line 72)
  faiss_vectorstore,  \* retriever_agent.py line 28: [created, texts]
  b_pc,               \* where the scheduled job is: "idle" or the function
                      \* get_market_brief awaits
  b_i,                \* the position of the ticker loop (line 139)
  brief_parts,        \* line 135
  b_calls,            \* the collaborator calls of the running job
  b_completed,        \* some get_market_brief call of the job has returned
  b_last,             \* what the latest such call returned
  b_signal,           \* the first note or information text a quote call of
                      \* the running job returned ("": none so far)
  last_market_brief,  \* app.state.last_market_brief: [set, value]
  read_out,           \* what the latest GET /get_market_brief answered
  b_quotes,           \* what the quote calls of the running job returned,
                      \* in order: [empty, payload]
  b_outcome,          \* how the latest call of the job ended: "returned",
                      \* "raised", or "none" while it runs or never ran
  r_pc,               \* of each concurrent caller of retrieve_info_from_rag:
                      \* "idle", "create" (line 66), "search" (line 72), "done"
  r_seen              \* of each such caller: the store its search ran on

handle_vars == <<h_pc, h_path, h_ticker, h_calls, h_retrieved, h_response,
                 h_upstream, h_data, h_docs>>
brief_vars == <<b_pc, b_i, brief_parts, b_calls, b_completed, b_last, b_signal,
                last_market_brief, read_out, b_outcome, b_quotes>>
retr_vars == <<r_pc, r_seen>>
env_vars == <<query, series, dist>>
vars == <<query, series, dist, h_pc, h_path, h_ticker, h_calls, h_retrieved,
          h_response, h_upstream, h_data, h_docs, faiss_vectorstore, b_pc, b_i,
          brief_parts, b_calls, b_completed, b_last, b_signal,
          last_market_brief, read_out, b_outcome, b_quotes, r_pc, r_seen>>

NoStore == [created |-> FALSE, texts |-> <<>>]
NoRetrieval == [content |-> <<>>, num |-> 0, den |-> 1]
NoResponse == <<>>

\* backend.py line 107: the default of getattr
UnavailableText == "No market brief available yet. It runs on a schedule."

HandleInit ==
  /\ h_pc = "start"
  /\ h_path = ""
  /\ h_ticker = <<>>
  /\ h_calls = <<>>
  /\ h_retrieved = NoRetrieval
  /\ h_response = NoResponse
  /\ h_upstream = <<>>
  /\ h_data = <<>>
  /\ h_docs = <<>>

BriefInit ==
  /\ b_pc = "idle"
  /\ b_i = 0
  /\ brief_parts = <<>>
  /\ b_calls = <<>>
  /\ b_completed = FALSE
  /\ b_last = NoResponse
  /\ b_signal = ""
  /\ last_market_brief = [set |-> FALSE, value |-> NoResponse]
  /\ read_out = NoResponse
  /\ b_outcome = "none"
  /\ b_quotes = <<>>

\* the requests that call retrieve_info_from_rag side by side
Callers == {"caller 1", "caller 2"}

NotSeen == [queried |-> FALSE, created |-> FALSE, texts |-> <<>>]

RetrInit ==
  /\ r_pc = [c \in Callers |-> "idle"]
  /\ r_seen = [c \in Callers |-> NotSeen]

\* the store before the first request: untouched (the orchestrator used as
\* a library, app.py) or seeded by on_startup (retriever_agent.py line 98)
StartStores == {NoStore, create_faiss_index(NoStore, <<SeedChunk>>)}

(***************************************************************************)
(* orchestrate_query, one action per stretch between two awaits.           *)
(***************************************************************************)
Finish(outcome) ==
  IF outcome.raised
  THEN h_pc' = "failed" /\ h_response' = NoResponse
  ELSE h_pc' = "done" /\ h_response' = outcome.response

\* lines 32-46, 69, 95, 106, 113, 127: classify and issue the first call
Orchestrate ==
  /\ h_pc = "start"
  /\ h_path' = Route(query)
  /\ h_ticker' = IF StockMatch(query).found THEN TickerOf(query) ELSE <<>>
  /\ h_calls' = <<FirstCall(query)>>
  /\ h_pc' = FirstCall(query).fn
  /\ UNCHANGED <<h_retrieved, h_response, h_upstream, h_data, h_docs,
                 faiss_vectorstore>>
  /\ UNCHANGED env_vars /\ UNCHANGED brief_vars /\ UNCHANGED retr_vars

\* lines 46-64
HistoricalReturn ==
  /\ h_pc = "get_historical_data"
  /\ \E up \in HistoricalUpstreams(series) :
       LET got == get_historical_data(up)
       IN  /\ h_upstream' = <<UpstreamSummary(up)>>
           /\ h_data' = <<got>>
           /\ IF got.raised THEN Finish(Failed)
              ELSE Finish(HistoricalOutcome(h_ticker, got.data))
  /\ UNCHANGED <<h_path, h_ticker, h_calls, h_retrieved, h_docs, faiss_vectorstore>>
  /\ UNCHANGED env_vars /\ UNCHANGED brief_vars /\ UNCHANGED retr_vars

\* lines 69-89
QuoteReturn ==
  /\ h_pc = "get_stock_quote"
  /\ \E up \in QuoteUpstreams :
       LET got == get_stock_quote(up)
       IN  /\ h_upstream' = <<UpstreamSummary(up)>>
           /\ h_data' = <<got>>
           /\ IF got.raised THEN Finish(Failed)
              ELSE Finish(QuoteOutcome(h_ticker, got.data))
  /\ UNCHANGED <<h_path, h_ticker, h_calls, h_retrieved, h_docs, faiss_vectorstore>>
  /\ UNCHANGED env_vars /\ UNCHANGED brief_vars /\ UNCHANGED retr_vars

\* lines 95-100
NewsReturn ==
  /\ h_pc = "get_financial_news_mock"
  /\ Finish(Answered(NewsResponse(get_financial_news_mock(h_calls[1].arg))))
  /\ UNCHANGED <<h_path, h_ticker, h_calls, h_retrieved, h_upstream, h_data,
                 h_docs, faiss_vectorstore>>
  /\ UNCHANGED env_vars /\ UNCHANGED brief_vars /\ UNCHANGED retr_vars

\* lines 106-108
AnalysisReturn ==
  /\ h_pc = "analyze_risk_volatility_returns"
  /\ Finish(Answered(AnalysisResponse(tickers_for_analysis,
              analyze_risk_volatility_returns(tickers_for_analysis))))
  /\ UNCHANGED <<h_path, h_ticker, h_calls, h_retrieved, h_upstream, h_data,
                 h_docs, faiss_vectorstore>>
  /\ UNCHANGED env_vars /\ UNCHANGED brief_vars /\ UNCHANGED retr_vars

\* retriever_agent.py lines 64-92, then orchestrator.py lines 113-121 up to
\* the generation call.  The search is the library's: it raises (line 74) or
\* answers with nearest entries, possibly fewer than k, possibly none.
RetrieveReturn ==
  /\ h_pc = "retrieve_info_from_rag"
  /\ LET store == IF ~faiss_vectorstore.created
                  THEN create_faiss_index(faiss_vectorstore, <<SeedChunk>>)
                  ELSE faiss_vectorstore
         nearest == NearestK(store.texts, dist, RetrieveK)
     IN  /\ faiss_vectorstore' = store
         /\ \E failed \in BOOLEAN, m \in 0..Len(nearest) :
              IF failed
              THEN /\ h_pc' = "failed"
                   /\ UNCHANGED <<h_retrieved, h_calls, h_docs>>
              ELSE LET docs_with_scores == SubSeq(nearest, 1, m)
                       retrieved == RetrieveResult(docs_with_scores)
                   IN  /\ h_docs' = docs_with_scores
                       /\ h_retrieved' = retrieved
                       /\ h_calls' = Append(h_calls,
                            [fn |-> "generate_text_with_gemini",
                             arg |-> ExplainPrompt(query, retrieved)])
                       /\ h_pc' = "generate_text_with_gemini"
  /\ UNCHANGED <<h_path, h_ticker, h_response, h_upstream, h_data>>
  /\ UNCHANGED env_vars /\ UNCHANGED brief_vars /\ UNCHANGED retr_vars

\* lines 116-117, 121-122, 127-128; language_agent.py lines 26-32
GenerateReturn ==
  /\ h_pc = "generate_text_with_gemini"
  /\ \E out \in GenOutcomes :
       IF out.raised THEN Finish(Failed)
       ELSE Finish(Answered(GeneratedResponse(h_path, h_retrieved, out.text)))
  /\ UNCHANGED <<h_path, h_ticker, h_calls, h_retrieved, h_upstream, h_data,
                 h_docs, faiss_vectorstore>>
  /\ UNCHANGED env_vars /\ UNCHANGED brief_vars /\ UNCHANGED retr_vars

\* retriever_agent.py lines 113-120: POST /add_document
AddDocument ==
  /\ Len(faiss_vectorstore.texts) < MaxIndex
  /\ \E document \in Documents :
       faiss_vectorstore' = create_faiss_index(faiss_vectorstore, <<document>>)
  /\ UNCHANGED handle_vars /\ UNCHANGED env_vars /\ UNCHANGED brief_vars
  /\ UNCHANGED retr_vars

\* a caller that never finds the index missing
NeedsIndexNever(store) == FALSE

\* retriever_agent.py line 65: faiss_vectorstore is None
NeedsIndex(store) == ~store.created

\* retriever_agent.py lines 64-66: a concurrent caller enters
\* retrieve_info_from_rag and, the index missing, awaits its creation
RetrEnter(c) ==
  /\ r_pc[c] = "idle"
  /\ r_pc' = [r_pc EXCEPT ![c] = IF NeedsIndex(faiss_vectorstore)
                                 THEN "create" ELSE "search"]
  /\ UNCHANGED <<r_seen, faiss_vectorstore>>
  /\ UNCHANGED handle_vars /\ UNCHANGED env_vars /\ UNCHANGED brief_vars

\* retriever_agent.py lines 43-57: create_faiss_index runs for the caller;
\* it looks at the store again (line 52) and creates it or adds to it
RetrCreate(c) ==
  /\ r_pc[c] = "create"
  /\ faiss_vectorstore' = create_faiss_index(faiss_vectorstore, <<SeedChunk>>)
  /\ r_pc' = [r_pc EXCEPT ![c] = "search"]
  /\ UNCHANGED r_seen
  /\ UNCHANGED handle_vars /\ UNCHANGED env_vars /\ UNCHANGED brief_vars

\* retriever_agent.py line 72: the caller's search runs on the store
RetrSearch(c) ==
  /\ r_pc[c] = "search"
  /\ r_seen' = [r_seen EXCEPT ![c] = [queried |-> TRUE,
                                      created |-> faiss_vectorstore.created,
                                      texts |-> faiss_vectorstore.texts]]
  /\ r_pc' = [r_pc EXCEPT ![c] = "done"]
  /\ UNCHANGED faiss_vectorstore
  /\ UNCHANGED handle_vars /\ UNCHANGED env_vars /\ UNCHANGED brief_vars

\* retriever_agent.py lines 95-98: on_startup, whenever it is invoked
Startup ==
  /\ Len(faiss_vectorstore.texts) < MaxIndex
  /\ faiss_vectorstore' = create_faiss_index(faiss_vectorstore, <<SeedChunk>>)
  /\ UNCHANGED handle_vars /\ UNCHANGED env_vars /\ UNCHANGED brief_vars
  /\ UNCHANGED retr_vars

(***************************************************************************)
(* orchestrator.py: get_market_brief, and backend.py: the scheduled job    *)
(* and the read accessor.                                                  *)
(***************************************************************************)
\* line 138
tickers == <<"SPY", "QQQ", "DIA">>

\* line 154: news[:3]
BriefNewsMax == 3

\* lines 143-148: the line appended for a ticker
BriefLine(ticker, data) ==
  IF data # EmptyDict /\ "Global Quote" \in DOMAIN data
  THEN <<ticker, ": $", GetOrNA(data["Global Quote"], "05. price"),
         " (Change: ", GetOrNA(data["Global Quote"], "09. change"), ")">>
  ELSE <<ticker, ": Quote unavailable.">>

\* lines 141-142: the quote answer ends the brief with a text of its own
BriefSignal(data) == TruthyText(data, "Note")

\* lines 152-154
BriefNewsLines(news) ==
  IF news # <<>>
  THEN << <<"\nNews:">> >>
       \o [i \in 1..Min(BriefNewsMax, Len(news)) |-> <<"- ", news[i]>>]
  ELSE <<>>

\* line 157
BriefPrompt(parts) ==
  <<"Summarize this market brief:\n">> \o Join(parts, <<"\n">>)

\* backend.py line 51
StoreBrief(brief) == [set |-> TRUE, value |-> brief]

\* backend.py lines 106-108
get_current_market_brief(slot) ==
  IF slot.set THEN slot.value ELSE Verbatim(UnavailableText)

\* a job that publishes the lines assembled so far in place of the brief
BriefReturnsParts(brief) ==
  /\ b_pc' = "idle"
  /\ b_outcome' = "returned"
  /\ b_completed' = TRUE
  /\ b_last' = brief
  /\ last_market_brief' = StoreBrief(brief_parts)

\* get_market_brief returns brief to scheduled_market_brief, which stores
\* it (backend.py lines 49-51); nothing suspends in between
BriefReturns(brief) ==
  /\ b_pc' = "idle"
  /\ b_outcome' = "returned"
  /\ b_completed' = TRUE
  /\ b_last' = brief
  /\ last_market_brief' = StoreBrief(brief)

\* a failed job that empties the slot
BriefRaisesClearing ==
  /\ b_pc' = "idle"
  /\ b_outcome' = "raised"
  /\ last_market_brief' = [set |-> FALSE, value |-> <<>>]
  /\ UNCHANGED <<b_completed, b_last>>

\* a failed job that stores a message of its failure
BriefRaisesStoring ==
  /\ b_pc' = "idle"
  /\ b_outcome' = "raised"
  /\ last_market_brief' = StoreBrief(Verbatim("Market brief failed."))
  /\ UNCHANGED <<b_completed, b_last>>

\* an exception leaves get_market_brief and the job (backend.py line 49)
BriefRaises ==
  /\ b_pc' = "idle"
  /\ b_outcome' = "raised"
  /\ UNCHANGED <<b_completed, b_last, last_market_brief>>

\* of the answer of a quote call: whether it is the empty dict, and whether
\* its payload is absent, empty or filled
QuoteSummary(data) ==
  [empty |-> DOMAIN data = {},
   payload |-> IF "Global Quote" \notin DOMAIN data THEN "absent"
               ELSE IF DOMAIN data["Global Quote"] = {} THEN "empty"
               ELSE "filled"]

\* the note or information text an answer of the wrapper carries, "" if none
SignalOf(data) ==
  IF TruthyText(data, "Note") THEN data["Note"]
  ELSE IF TruthyText(data, "Information") THEN data["Information"]
  ELSE ""

\* backend.py lines 47-49 and orchestrator.py lines 133-140: the trigger
\* fires (one instance of the job at a time) and the first quote is asked
SchedulerFire ==
  /\ b_pc = "idle"
  /\ b_pc' = "get_stock_quote"
  /\ b_i' = 1
  /\ brief_parts' = <<>>
  /\ b_calls' = <<[fn |-> "get_stock_quote", arg |-> <<tickers[1]>>]>>
  /\ b_signal' = ""
  /\ b_outcome' = "none"
  /\ b_quotes' = <<>>
  /\ UNCHANGED <<b_completed, b_last, last_market_brief, read_out>>
  /\ UNCHANGED handle_vars /\ UNCHANGED env_vars /\ UNCHANGED faiss_vectorstore
  /\ UNCHANGED retr_vars

\* orchestrator.py lines 140-151: a quote call returns
BriefQuoteReturn ==
  /\ b_pc = "get_stock_quote"
  /\ \E up \in QuoteUpstreams :
       LET got == get_stock_quote(up)
           data == got.data
       IN  IF got.raised
           THEN BriefRaises
                /\ UNCHANGED <<b_i, brief_parts, b_calls, b_signal, b_quotes>>
           ELSE IF BriefSignal(data)
           THEN /\ BriefReturns(Verbatim(data["Note"]))
                /\ b_signal' = IF b_signal = "" THEN SignalOf(data) ELSE b_signal
                /\ b_quotes' = Append(b_quotes, QuoteSummary(data))
                /\ UNCHANGED <<b_i, brief_parts, b_calls>>
           ELSE /\ brief_parts' = Append(brief_parts, BriefLine(tickers[b_i], data))
                /\ b_signal' = IF b_signal = "" THEN SignalOf(data) ELSE b_signal
                /\ b_quotes' = Append(b_quotes, QuoteSummary(data))
                /\ UNCHANGED <<b_completed, b_last, last_market_brief,
                               b_outcome>>
                /\ IF b_i < Len(tickers)
                   THEN /\ b_i' = b_i + 1
                        /\ b_pc' = "get_stock_quote"
                        /\ b_calls' = Append(b_calls,
                             [fn |-> "get_stock_quote", arg |-> <<tickers[b_i + 1]>>])
                   ELSE /\ b_i' = b_i
                        /\ b_pc' = "get_financial_news_mock"
                        /\ b_calls' = Append(b_calls,
                             [fn |-> "get_financial_news_mock", arg |-> <<"m","a","r","k","e","t">>])
  /\ UNCHANGED read_out
  /\ UNCHANGED handle_vars /\ UNCHANGED env_vars /\ UNCHANGED faiss_vectorstore
  /\ UNCHANGED retr_vars

\* orchestrator.py lines 151-158: the news call returns
BriefNewsReturn ==
  /\ b_pc = "get_financial_news_mock"
  /\ LET parts == brief_parts \o BriefNewsLines(get_financial_news_mock(<<"m","a","r","k","e","t">>))
     IN  /\ brief_parts' = parts
         /\ b_calls' = Append(b_calls,
              [fn |-> "generate_text_with_gemini", arg |-> BriefPrompt(parts)])
  /\ b_pc' = "generate_text_with_gemini"
  /\ UNCHANGED <<b_i, b_completed, b_last, b_signal, last_market_brief, read_out,
                 b_outcome, b_quotes>>
  /\ UNCHANGED handle_vars /\ UNCHANGED env_vars /\ UNCHANGED faiss_vectorstore
  /\ UNCHANGED retr_vars

\* orchestrator.py lines 158-159 and backend.py lines 49-51
BriefSummaryReturn ==
  /\ b_pc = "generate_text_with_gemini"
  /\ \E out \in GenOutcomes :
       IF out.raised THEN BriefRaises ELSE BriefReturns(Verbatim(out.text))
  /\ UNCHANGED <<b_i, brief_parts, b_calls, b_signal, read_out, b_quotes>>
  /\ UNCHANGED handle_vars /\ UNCHANGED env_vars /\ UNCHANGED faiss_vectorstore
  /\ UNCHANGED retr_vars

\* backend.py lines 105-108: GET /get_market_brief
ReadBrief ==
  /\ read_out' = get_current_market_brief(last_market_brief)
  /\ UNCHANGED <<b_pc, b_i, brief_parts, b_calls, b_completed, b_last, b_signal,
                 last_market_brief, b_outcome, b_quotes>>
  /\ UNCHANGED handle_vars /\ UNCHANGED env_vars /\ UNCHANGED faiss_vectorstore
  /\ UNCHANGED retr_vars

(***************************************************************************)
(* Specifications.                                                         *)
(***************************************************************************)
SampleSeries == {<<>>, <<3>>, <<1, 3>>}

\* one request of each kind, every store, every distance
Init ==
  /\ query \in SampleQueries
  /\ series \in SampleSeries
  /\ dist \in [ChunkTexts -> Distances]
  /\ faiss_vectorstore \in StartStores
  /\ HandleInit
  /\ BriefInit
  /\ RetrInit

Next ==
  \/ Orchestrate
  \/ HistoricalReturn
  \/ QuoteReturn
  \/ NewsReturn
  \/ AnalysisReturn
  \/ RetrieveReturn
  \/ GenerateReturn
  \/ AddDocument

Spec == Init /\ [][Next]_vars

\* the scheduled job, the read accessor and a request side by side
InitBrief ==
  /\ query \in {q \in SampleQueries : Route(q) = "Unclassified"}
  /\ series = <<>>
  /\ dist = [t \in ChunkTexts |-> 0]
  /\ faiss_vectorstore = NoStore
  /\ HandleInit
  /\ BriefInit
  /\ RetrInit

NextBrief ==
  \/ SchedulerFire
  \/ BriefQuoteReturn
  \/ BriefNewsReturn
  \/ BriefSummaryReturn
  \/ ReadBrief
  \/ Orchestrate
  \/ GenerateReturn

SpecBrief == InitBrief /\ [][NextBrief]_vars

\* the Historical branch over every series of closes
InitHistorical ==
  /\ query \in {q \in SampleQueries : Route(q) = "Historical"}
  /\ series \in SeriesUpTo(MaxSeries)
  /\ dist = [t \in ChunkTexts |-> 0]
  /\ faiss_vectorstore = NoStore
  /\ HandleInit
  /\ BriefInit
  /\ RetrInit

NextHistorical ==
  \/ Orchestrate
  \/ HistoricalReturn

SpecHistorical == InitHistorical /\ [][NextHistorical]_vars

\* the index under initialisation, added documents and an Explain request
InitIndex ==
  /\ query \in {q \in SampleQueries : Route(q) = "Explain"}
  /\ series = <<>>
  /\ dist \in [ChunkTexts -> Distances]
  /\ faiss_vectorstore = NoStore
  /\ HandleInit
  /\ BriefInit
  /\ RetrInit

NextIndex ==
  \/ Startup
  \/ AddDocument
  \/ Orchestrate
  \/ RetrieveReturn
  \/ GenerateReturn

SpecIndex == InitIndex /\ [][NextIndex]_vars

\* retrieve calls side by side on an index not yet created
InitConcurrent ==
  /\ query \in {q \in SampleQueries : Route(q) = "Explain"}
  /\ series = <<>>
  /\ dist \in [ChunkTexts -> Distances]
  /\ faiss_vectorstore = NoStore
  /\ HandleInit
  /\ BriefInit
  /\ RetrInit

NextConcurrent ==
  \/ \E c \in Callers : RetrEnter(c)
  \/ \E c \in Callers : RetrCreate(c)
  \/ \E c \in Callers : RetrSearch(c)

SpecConcurrent == InitConcurrent /\ [][NextConcurrent]_vars

\* the requests that retrieve or generate, beside the scheduled job
InitFailure ==
  /\ query \in {q \in SampleQueries : Route(q) \in {"Explain", "Unclassified"}}
  /\ series = <<>>
  /\ dist = [t \in ChunkTexts |-> 0]
  /\ faiss_vectorstore = NoStore
  /\ HandleInit
  /\ BriefInit
  /\ RetrInit

NextFailure ==
  \/ Orchestrate
  \/ RetrieveReturn
  \/ GenerateReturn
  \/ SchedulerFire
  \/ BriefQuoteReturn
  \/ BriefNewsReturn
  \/ BriefSummaryReturn

SpecFailure == InitFailure /\ [][NextFailure]_vars

\* classification over every query put together from the pieces
InitDispatch ==
  /\ query \in QueriesOf(MaxPieces)
  /\ series = <<1, 3>>
  /\ dist = [t \in ChunkTexts |-> 30]
  /\ faiss_vectorstore \in StartStores
  /\ HandleInit
  /\ BriefInit
  /\ RetrInit

NextDispatch ==
  \/ Orchestrate
  \/ HistoricalReturn
  \/ QuoteReturn
  \/ NewsReturn
  \/ AnalysisReturn
  \/ RetrieveReturn
  \/ GenerateReturn

SpecDispatch == InitDispatch /\ [][NextDispatch]_vars

(***************************************************************************)
(* Claims.                                                                 *)
(***************************************************************************)
HandleReturned == h_pc \in {"done", "failed"}

\* the Explain branch has its retrieval result and has sent its prompt
Retrieved == h_path = "Explain" /\ Len(h_calls) = 2

\* C1: once a quote call of get_market_brief has returned a note or an
\* information text, the call of get_market_brief is over and has returned
\* exactly that text: no further ticker line, news or summary is produced.
C1_SignalAlone ==
  b_signal # "" =>
    /\ b_pc = "idle"
    /\ b_completed
    /\ b_last = Verbatim(b_signal)

\* C2: when the provider answers the quote or historical request with a
\* note or an information text (and no error message), orchestrate_query
\* returns that text verbatim.
C2_SignalEndToEnd ==
  (/\ HandleReturned
   /\ h_path \in {"Quote", "Historical"}
   /\ h_upstream[1].ok
   /\ ~h_upstream[1].error
   /\ h_upstream[1].signals # {})
  => /\ h_pc = "done"
     /\ \E text \in h_upstream[1].signals : h_response = Verbatim(text)

\* the positions of the generation calls among the calls issued
GenerationCalls ==
  {i \in DOMAIN h_calls : h_calls[i].fn = "generate_text_with_gemini"}

\* C3: on the Explain branch a confidence of at least 0.7 (0.7 included)
\* sends one prompt holding the retrieved context and the query, and the
\* answer opens with the header of a retrieval answer; a confidence below
\* 0.7 sends one prompt holding the query and not the context, and the
\* answer opens with the low-confidence header.
C3_ConfidenceGate ==
  Retrieved =>
    LET prompt == h_calls[2].arg
        trusted == 10 * h_retrieved.num >= 7 * h_retrieved.den
    IN  /\ GenerationCalls = {2}
        /\ Contains(prompt, query)
        /\ trusted => Contains(prompt, h_retrieved.content)
        /\ ~trusted => /\ ~Contains(prompt, h_retrieved.content)
                       /\ prompt = <<"Explain this concept: ">> \o query
        /\ h_pc = "done" =>
             /\ Len(h_response) = 3
             /\ h_response[1] = IF trusted THEN FoundHeader ELSE LowHeader
             /\ h_response[3][1] \in GenTexts

\* the confidence is exactly 0.7 and the context was sent
C3_Witness ==
  /\ Retrieved
  /\ h_pc = "done"
  /\ 10 * h_retrieved.num = 7 * h_retrieved.den
  /\ Contains(h_calls[2].arg, h_retrieved.content)
  /\ h_response[1] = FoundHeader

\* max(0, 1 - d) in hundredths, and the sum of f over the set S
ClampedConfidence(d) == IF d >= One THEN 0 ELSE One - d

RECURSIVE SumOver(_, _)
SumOver(f, S) ==
  IF S = {} THEN 0
  ELSE LET x == CHOOSE y \in S : TRUE IN f[x] + SumOver(f, S \ {x})

\* C4: the confidence retrieve returns is the arithmetic mean of
\* max(0, 1 - d) over the distances d of the matches and lies in [0, 1];
\* for no match it is exactly 0 with the text "No relevant documents found.".
C4_MeanConfidence ==
  Retrieved =>
    LET n == Len(h_docs)
        total == SumOver([i \in 1..n |-> ClampedConfidence(h_docs[i].score)], 1..n)
    IN  /\ h_retrieved.den > 0
        /\ 0 <= h_retrieved.num
        /\ h_retrieved.num <= h_retrieved.den
        /\ IF n = 0
           THEN /\ h_retrieved.num = 0
                /\ h_retrieved.content = <<"No relevant documents found.">>
           ELSE h_retrieved.num * (One * n) = total * h_retrieved.den

\* two matches, one of them farther than 1.0 (clamped to 0)
C4_Witness ==
  /\ Retrieved
  /\ Len(h_docs) = 2
  /\ h_docs[1].score < One
  /\ h_docs[2].score > One
  /\ h_retrieved.num = One - h_docs[1].score
  /\ h_retrieved.den = 2 * One

\* q holds m capitals at j with no word character on either side
StandaloneToken(q, j, m) ==
  /\ m \in 1..5
  /\ j >= 1
  /\ j + m - 1 <= Len(q)
  /\ \A i \in j..(j + m - 1) : IsUpper(q[i])
  /\ j = 1 \/ ~IsWordChar(q[j - 1])
  /\ j + m - 1 = Len(q) \/ ~IsWordChar(q[j + m])

\* <<j, m>>: a standalone token of m capitals at j, after a trigger word
TokensAfterTrigger(q) ==
  {jm \in (1..Len(q)) \X (1..5) :
     /\ StandaloneToken(q, jm[1], jm[2])
     /\ \E t \in DOMAIN Triggers, i \in 1..Len(q) :
          OccursAt(q, Triggers[t], i) /\ jm[1] >= i + Len(Triggers[t])}

\* C5: a query that holds a trigger word followed, anywhere later in the
\* text, by a standalone token of 1 to 5 capitals takes the ticker branch,
\* and the ticker is such a token standing after a trigger word.
C5_TickerExtraction ==
  (h_pc # "start" /\ TokensAfterTrigger(query) # {}) =>
    /\ h_path \in {"Quote", "Historical"}
    /\ \E jm \in TokensAfterTrigger(query) :
         h_ticker = SubSeq(query, jm[1], jm[1] + jm[2] - 1)

\* the rule of each branch, each read on the query by itself
TickerRule(q) == StockMatch(q).found

NewsRule(q) ==
  LET lowered == Lower(q)
  IN  \E w \in
        {<<"n","e","w","s">>, <<"h","e","a","d","l","i","n","e","s">>, <<"f","i","l","i","n","g","s">>} :
        Contains(lowered, w)

AnalysisRule(q) ==
  LET lowered == Lower(q)
  IN  \E w \in
        {<<"a","n","a","l","y","z","e">>, <<"r","i","s","k">>, <<"v","o","l","a","t","i","l","i","t","y">>, <<"r","e","t","u","r","n","s">>, <<"p","o","r","t","f","o","l","i","o">>} :
        Contains(lowered, w)

ExplainRule(q) ==
  LET lowered == Lower(q)
  IN  \E w \in
        {<<"e","x","p","l","a","i","n">>, <<"w","h","a","t"," ","i","s">>, <<"t","e","l","l"," ","m","e"," ","a","b","o","u","t">>, <<"d","e","f","i","n","e">>} :
        Contains(lowered, w)

CollaboratorsOf(path) ==
  IF path = "Quote" THEN <<"get_stock_quote">>
  ELSE IF path = "Historical" THEN <<"get_historical_data">>
  ELSE IF path = "News" THEN <<"get_financial_news_mock">>
  ELSE IF path = "Analysis" THEN <<"analyze_risk_volatility_returns">>
  ELSE IF path = "Explain"
    THEN <<"retrieve_info_from_rag", "generate_text_with_gemini">>
  ELSE <<"generate_text_with_gemini">>

\* C6: the branches are tried in the order ticker, news, analysis, explain,
\* unclassified and the first that matches is the only one taken: the calls
\* issued are those of that branch alone, a query that matches the ticker
\* pattern and a later rule is answered as a quote or a historical request,
\* and a query that matches no rule goes to generation.
C6_FirstMatchWins ==
  h_pc # "start" =>
    /\ h_path \in {"Quote", "Historical", "News", "Analysis", "Explain",
                   "Unclassified"}
    /\ h_path \in {"Quote", "Historical"} <=> TickerRule(query)
    /\ h_path = "News" <=> (~TickerRule(query) /\ NewsRule(query))
    /\ h_path = "Analysis" <=>
         (~TickerRule(query) /\ ~NewsRule(query) /\ AnalysisRule(query))
    /\ h_path = "Explain" <=>
         (/\ ~TickerRule(query) /\ ~NewsRule(query)
          /\ ~AnalysisRule(query) /\ ExplainRule(query))
    /\ h_path = "Unclassified" <=>
         (/\ ~TickerRule(query) /\ ~NewsRule(query)
          /\ ~AnalysisRule(query) /\ ~ExplainRule(query))
    /\ Len(h_calls) <= Len(CollaboratorsOf(h_path))
    /\ \A i \in DOMAIN h_calls : h_calls[i].fn = CollaboratorsOf(h_path)[i]
    /\ h_pc = "done" => Len(h_calls) = Len(CollaboratorsOf(h_path))

\* a query that matches the ticker pattern and the news rule, answered with
\* a quote
C6_Witness ==
  /\ h_pc = "done"
  /\ TickerRule(query) /\ NewsRule(query)
  /\ h_path = "Quote"
  /\ Len(h_calls) = 1
  /\ h_calls[1].fn = "get_stock_quote"

\* reading an answer back: the position of a fragment in a line (0: absent),
\* the number a run of digit characters writes, the hundredths a decimal
\* with two places writes
IndexOf(line, frag) ==
  LET at == {i \in DOMAIN line : line[i] = frag}
  IN  IF at = {} THEN 0 ELSE CHOOSE i \in at : \A j \in at : i <= j

DigitValue(c) == (CHOOSE i \in DOMAIN DigitChars : DigitChars[i] = c) - 1

RECURSIVE ParseNat(_)
ParseNat(chars) ==
  IF chars = <<>> THEN 0
  ELSE ParseNat(SubSeq(chars, 1, Len(chars) - 1)) * 10
       + DigitValue(chars[Len(chars)])

ParseHundredths(chars) ==
  LET negative == chars[1] = "-"
      body == IF negative THEN Tail(chars) ELSE chars
      dot == IndexOf(body, ".")
      value == ParseNat(SubSeq(body, 1, dot - 1)) * 100
               + ParseNat(SubSeq(body, dot + 1, Len(body)))
  IN  IF negative THEN -value ELSE value

TwoPlaces(chars) ==
  /\ IndexOf(chars, ".") > 1
  /\ Len(chars) - IndexOf(chars, ".") = 2

ChangeAt(line) == IndexOf(line, " days, it changed by ")

ReportedChars(line) == SubSeq(line, ChangeAt(line) + 1, Len(line) - 1)

ReportedChange(line) == ParseHundredths(ReportedChars(line))

ReportedWindow(line) ==
  ParseNat(SubSeq(line, IndexOf(line, ". Over the last ") + 1,
                  ChangeAt(line) - 1))

ReportedLatest(line) ==
  LET from == IndexOf(line, " was ") + 1
      rest == SubSeq(line, from, Len(line))
      stop == CHOOSE i \in DOMAIN rest :
                /\ rest[i] \notin Range(DigitChars)
                /\ \A j \in 1..(i - 1) : rest[j] \in Range(DigitChars)
  IN  ParseNat(SubSeq(rest, 1, stop - 1))

\* a historical request answered from a series of closes: the provider's
\* answer reached the orchestrator with the series and without a signal
HistoricalAnswered ==
  /\ h_pc = "done"
  /\ h_path = "Historical"
  /\ ~h_data[1].raised
  /\ ~TruthyText(h_data[1].data, "Note")
  /\ ~TruthyText(h_data[1].data, "Information")
  /\ "Time Series (Daily)" \in DOMAIN h_data[1].data
  /\ Len(series) >= 1

Abs(x) == IF x < 0 THEN -x ELSE x

\* C7 as the specification states it: the reported change is exactly
\* (first - last) / last * 100.
C7_ExactChange ==
  (HistoricalAnswered /\ Len(series) > 1) =>
    LET w == Min(7, Len(series))
    IN  ReportedChange(h_response[1]) * series[w]
          = 10000 * (series[1] - series[w])

\* C7: on the historical path with n >= 1 closes, most recent first, the
\* answer reports the latest close; for n > 1 it reports the change over the
\* min(7, n) most recent closes as (first - last) / last * 100 rounded to
\* two decimal places, first the most recent close and last the close at
\* position min(7, n), no later position taking part; for n = 1 it reports
\* no change, the latest close only.
C7_RoundedChange ==
  HistoricalAnswered =>
    LET line == h_response[1]
        w == Min(7, Len(series))
    IN  /\ Len(h_response) = 1
        /\ ReportedLatest(line) = series[1]
        /\ Len(series) = 1 => ChangeAt(line) = 0
        /\ Len(series) > 1 =>
             /\ ChangeAt(line) > 0
             /\ line[Len(line)] = "%."
             /\ ReportedWindow(line) = w
             /\ TwoPlaces(IF ReportedChars(line)[1] = "-"
                          THEN Tail(ReportedChars(line))
                          ELSE ReportedChars(line))
             /\ 2 * Abs(ReportedChange(line) * series[w]
                        - 10000 * (series[1] - series[w])) <= series[w]

\* eight closes, the eighth unlike the seventh, and a change that two
\* decimal places cannot write exactly
C7_Witness ==
  /\ HistoricalAnswered
  /\ Len(series) = 8
  /\ series[1] = 1 /\ series[7] = 3 /\ series[8] = 1
  /\ ReportedWindow(h_response[1]) = 7
  /\ ReportedChange(h_response[1]) = -6667

\* the labels of the quote summary, in the order of its lines
QuoteLabels ==
  <<"Open: ", "High: ", "Low: ", "Price: ", "Volume: ", "Last Trading Day: ">>

\* every answer the quote branch can be handed: a note, an information
\* text and a payload, each absent or present
QuoteAnswers ==
  {n @@ i @@ g :
     n \in Optional("Note", {"", NoteText}),
     i \in Optional("Information", {"", InfoText}),
     g \in Optional("Global Quote", {EmptyDict, PartialQuote, FullQuote})}

\* outcome is what the claim prescribes for ticker t and the answer data
QuoteDecided(t, data, outcome) ==
  /\ ~outcome.raised
  /\ LET r == outcome.response
         signals == {data[k] : k \in {key \in {"Note", "Information"} :
                                        key \in DOMAIN data /\ data[key] # ""}}
     IN  IF signals # {}
         THEN \E text \in signals : r = << <<text>> >>
         ELSE IF "Global Quote" \in DOMAIN data
                 /\ DOMAIN data["Global Quote"] # {}
         THEN /\ Len(r) = 1 + Len(QuoteLabels)
              /\ r[1] = t \o <<" Stock Quote:">>
              /\ \A k \in DOMAIN QuoteLabels :
                   /\ r[k + 1][1] = QuoteLabels[k]
                   /\ Len(r[k + 1]) = 2
         ELSE /\ Len(r) = 1
              /\ r[1][1] = "Could not retrieve live quote for "
              /\ SubSeq(r[1], 2, Len(t) + 1) = t

\* C8: on the quote path the answer of the collaborator decides the outcome
\* in this order: a note or an information text is returned as it is, a
\* payload beside it or not; else a non-empty payload gives the summary,
\* the ticker header first and Open, High, Low, Price, Volume, Last Trading
\* Day after it in that order; else the fallback that names the ticker.  No
\* answer makes the path raise.
C8_QuoteDecisionOrder ==
  (h_path = "Quote" /\ HandleReturned /\ ~h_data[1].raised) =>
    /\ h_pc = "done"
    /\ QuoteDecided(h_ticker, h_data[1].data, Answered(h_response))
    /\ \A data \in QuoteAnswers :
         QuoteDecided(h_ticker, data, QuoteOutcome(h_ticker, data))

\* an information text beside a full payload: the text is the answer
C8_Witness ==
  /\ h_path = "Quote"
  /\ h_pc = "done"
  /\ h_ticker # <<>>
  /\ TruthyText(h_data[1].data, "Information")
  /\ TruthyColl(h_data[1].data, "Global Quote")
  /\ h_response = Verbatim(h_data[1].data["Information"])

\* the results a news collaborator can give: none, one, three or four
NewsResults ==
  {<<>>, SubSeq(MOCK_MARKET, 1, 1), MOCK_DEFAULT, MOCK_MARKET}

\* r is what the claim prescribes for the headlines news
NewsDecided(news, r) ==
  IF Len(news) >= 1
  THEN /\ Len(r) = 1 + Len(news)
       /\ r[1][1] # "- "
       /\ \A i \in DOMAIN news : r[i + 1] = <<"- ", news[i]>>
  ELSE /\ r = << <<"Could not retrieve financial news at this time.">> >>
       /\ \A i \in DOMAIN r : r[i][1] # "- "

\* C9: on the news path n >= 1 headlines give one header line and then n
\* lines, one for each headline in the order received, each starting with
\* "- "; no headline gives the fallback text and no headline line.
C9_NewsLines ==
  (h_path = "News" /\ h_pc = "done") =>
    /\ NewsDecided(get_financial_news_mock(h_calls[1].arg), h_response)
    /\ \A news \in NewsResults : NewsDecided(news, NewsResponse(news))

\* the four market headlines answered in five lines
C9_Witness ==
  /\ h_path = "News"
  /\ h_pc = "done"
  /\ get_financial_news_mock(h_calls[1].arg) = MOCK_MARKET
  /\ Len(h_response) = 5
  /\ h_response[5] = <<"- ", MOCK_MARKET[4]>>

\* C10: the slot is written by the scheduled job alone, as a call of
\* get_market_brief completes; at every moment the read accessor returns
\* the message of the empty slot while no scheduled call has completed and
\* the value the last completed call returned afterwards; a read issues no
\* call and changes nothing but what it hands out.
C10_SlotScheduledOnly ==
  /\ [](get_current_market_brief(last_market_brief)
          = IF b_completed THEN b_last ELSE Verbatim(UnavailableText))
  /\ [][last_market_brief' # last_market_brief =>
          /\ b_pc \in {"get_stock_quote", "generate_text_with_gemini"}
          /\ b_pc' = "idle"
          /\ b_completed'
          /\ last_market_brief'.set
          /\ last_market_brief'.value = b_last']_vars
  /\ [][read_out' # read_out =>
          /\ read_out' = get_current_market_brief(last_market_brief)
          /\ UNCHANGED <<b_pc, b_i, brief_parts, b_calls, b_completed, b_last,
                         b_signal, last_market_brief, b_outcome, b_quotes>>
          /\ UNCHANGED retr_vars
          /\ UNCHANGED handle_vars
          /\ UNCHANGED env_vars
          /\ UNCHANGED faiss_vectorstore]_vars

\* a read after one generation has completed, the next one in flight: it
\* has handed out the completed brief
C10_Witness ==
  /\ b_completed
  /\ b_pc = "generate_text_with_gemini"
  /\ last_market_brief.set
  /\ read_out = b_last
  /\ read_out # Verbatim(UnavailableText)

\* the values a call of get_market_brief can return, and with them the
\* message of the empty slot: what a reader may be handed
CompleteBriefs ==
  {Verbatim(t) : t \in GenTexts \cup {NoteText, InfoText}}

ReadableValues == CompleteBriefs \cup {Verbatim(UnavailableText)}

\* a line of a brief under assembly: a ticker line, the news header, a headline
AssemblyLine(line) ==
  \/ \E i \in DOMAIN tickers : line[1] = tickers[i]
  \/ line[1] = "- "
  \/ line \in Range(brief_parts)

\* C11: whatever the scheduled regeneration is suspended at, a read hands
\* out the slot as it stands, which is a whole value: the message of the
\* empty slot or a brief a call has returned (the previous one until the
\* call in flight completes, the new one from then on), never the lines
\* assembled so far.
C11_ReadSeesWholeBrief ==
  /\ [](get_current_market_brief(last_market_brief) \in ReadableValues)
  /\ [][read_out' # read_out =>
          /\ read_out' \in ReadableValues
          /\ read_out' = IF b_completed THEN b_last
                         ELSE Verbatim(UnavailableText)
          /\ \A i \in DOMAIN read_out' : ~AssemblyLine(read_out'[i])]_vars

\* a regeneration suspended at its news call with three ticker lines
\* assembled, and the reader holding the brief of the call before it
C11_Witness ==
  /\ b_pc = "get_financial_news_mock"
  /\ Len(brief_parts) = 3
  /\ b_completed
  /\ read_out = b_last
  /\ read_out \in CompleteBriefs

\* the calls of one get_market_brief, in the order of the code
BriefCallOrder ==
  <<[fn |-> "get_stock_quote", arg |-> <<"SPY">>],
    [fn |-> "get_stock_quote", arg |-> <<"QQQ">>],
    [fn |-> "get_stock_quote", arg |-> <<"DIA">>],
    [fn |-> "get_financial_news_mock", arg |-> <<"m","a","r","k","e","t">>]>>

\* C12: the calls of one handling call are issued one after the other, the
\* one in flight being the last issued; get_market_brief asks SPY, QQQ,
\* DIA, the news on "market" and then the summary, and once a quote answer
\* carried a provider signal no further call is issued.
C12_SequentialCalls ==
  /\ Len(b_calls) <= Len(BriefCallOrder) + 1
  /\ \A i \in DOMAIN b_calls :
       IF i <= Len(BriefCallOrder) THEN b_calls[i] = BriefCallOrder[i]
       ELSE b_calls[i].fn = "generate_text_with_gemini"
  /\ b_pc # "idle" => b_pc = b_calls[Len(b_calls)].fn
  /\ h_pc \notin {"start", "done", "failed"} => h_pc = h_calls[Len(h_calls)].fn
  /\ b_signal # "" =>
       /\ b_pc = "idle"
       /\ b_calls[Len(b_calls)].fn = "get_stock_quote"

\* the calls of a sequence that went to the function of its last call
CallsLikeLast(calls) ==
  {i \in DOMAIN calls : calls[i].fn = calls[Len(calls)].fn}

\* C13: a failure of retrieval or generation ends the handling call as a
\* failure: no answer text is returned (an answer on these paths always
\* carries a generated text), and the step that failed was called once, no
\* second attempt being made, in orchestrate_query and in get_market_brief.
C13_FailureSurfaces ==
  /\ h_pc = "failed" =>
       /\ h_response = NoResponse
       /\ h_calls[Len(h_calls)].fn
            \in {"retrieve_info_from_rag", "generate_text_with_gemini"}
       /\ Cardinality(CallsLikeLast(h_calls)) = 1
  /\ h_pc = "done" =>
       h_response[Len(h_response)][1] \in GenTexts
  /\ b_outcome = "raised" =>
       /\ b_pc = "idle"
       /\ b_calls[Len(b_calls)].fn = "generate_text_with_gemini" =>
            Cardinality(CallsLikeLast(b_calls)) = 1
  /\ b_outcome = "returned" => b_last \in CompleteBriefs

\* a request whose retrieval failed and a job whose generation failed
C13_Witness ==
  /\ h_pc = "failed"
  /\ h_path = "Explain"
  /\ Len(h_calls) = 1
  /\ h_calls[1].fn = "retrieve_info_from_rag"
  /\ b_outcome = "raised"
  /\ b_calls[Len(b_calls)].fn = "generate_text_with_gemini"

\* texts with every occurrence of the seed text but the first left out: the
\* index had the seed corpus been inserted once
RECURSIVE SeedOnceFrom(_, _)
SeedOnceFrom(texts, seen) ==
  IF texts = <<>> THEN <<>>
  ELSE IF texts[1] = SeedChunk /\ seen THEN SeedOnceFrom(Tail(texts), TRUE)
  ELSE <<texts[1]>> \o SeedOnceFrom(Tail(texts), seen \/ texts[1] = SeedChunk)

SeedOnce(texts) == SeedOnceFrom(texts, FALSE)

\* the step in which a retrieval returns every match the index has for it
RetrievalStep ==
  /\ h_pc = "retrieve_info_from_rag"
  /\ h_pc' = "generate_text_with_gemini"
  /\ Len(h_docs') = Min(RetrieveK, Len(faiss_vectorstore'.texts))

\* C14: with the seed corpus inserted twice a retrieval gives what it gives
\* with the corpus inserted once: the same top match, the same context, the
\* same confidence and with it the same decision at 0.7.
C14_DoubleInitSame ==
  [][RetrievalStep =>
       LET once == NearestK(SeedOnce(faiss_vectorstore'.texts), dist, RetrieveK)
           single == RetrieveResult(once)
       IN  /\ h_docs'[1] = once[1]
           /\ h_retrieved'.content = single.content
           /\ h_retrieved'.num * single.den = single.num * h_retrieved'.den]_vars

\* C15: with retrieve calls arriving side by side on an index not yet
\* created, whatever the interleaving, no search runs on a missing index,
\* every search runs on an index that holds the seed corpus, and the corpus
\* is inserted at least once, a further insertion adding only entries equal
\* to those present: the nearest entry stays the one of a single insertion.
C15_ConcurrentLazyInit ==
  /\ \A c \in Callers :
       r_pc[c] \in {"search", "done"} =>
         /\ faiss_vectorstore.created
         /\ SeedChunk \in Range(faiss_vectorstore.texts)
  /\ \A c \in Callers :
       r_seen[c].queried =>
         /\ r_seen[c].created
         /\ SeedChunk \in Range(r_seen[c].texts)
         /\ Range(r_seen[c].texts) = {SeedChunk}
         /\ NearestK(r_seen[c].texts, dist, RetrieveK)[1]
              = NearestK(<<SeedChunk>>, dist, RetrieveK)[1]

\* both callers found the index missing: one searched the index holding the
\* corpus once, the other the index holding it twice
C15_Witness ==
  /\ \A c \in Callers : r_pc[c] = "done"
  /\ faiss_vectorstore.texts = <<SeedChunk, SeedChunk>>
  /\ \E c \in Callers : r_seen[c].texts = <<SeedChunk>>
  /\ \E c \in Callers : r_seen[c].texts = <<SeedChunk, SeedChunk>>

\* a quote call returned missing data: an empty result, a result without a
\* payload, or an empty payload
MissingData(q) == q.empty \/ q.payload \in {"absent", "empty"}

\* the lines of parts that are headlines, in order
RECURSIVE HeadlinesOf(_)
HeadlinesOf(parts) ==
  IF parts = <<>> THEN <<>>
  ELSE (IF parts[1][1] = "- " THEN <<parts[1][2]>> ELSE <<>>)
       \o HeadlinesOf(Tail(parts))

\* C16: no quote call having returned a provider signal, the text sent for
\* summarisation holds one line for each of SPY, QQQ, DIA in that order,
\* the unavailable line where the quote call returned missing data and the
\* price line otherwise, followed by at most the first three headlines in
\* order.
C16_BriefAssembly ==
  (b_pc = "generate_text_with_gemini" /\ b_signal = "") =>
    LET news == get_financial_news_mock(<<"m","a","r","k","e","t">>)
        prompt == b_calls[Len(b_calls)].arg
    IN  /\ Len(brief_parts) >= Len(tickers)
        /\ \A i \in DOMAIN tickers :
             /\ brief_parts[i][1] = tickers[i]
             /\ Contains(prompt, brief_parts[i])
             /\ IF MissingData(b_quotes[i])
                THEN brief_parts[i] = <<tickers[i], ": Quote unavailable.">>
                ELSE /\ Len(brief_parts[i]) = 6
                     /\ brief_parts[i][2] = ": $"
                     /\ brief_parts[i][4] = " (Change: "
                     /\ brief_parts[i][6] = ")"
        /\ \A i \in DOMAIN brief_parts :
             i > Len(tickers) => brief_parts[i][1] \notin Range(tickers)
        /\ HeadlinesOf(brief_parts) = SubSeq(news, 1, Min(3, Len(news)))
        /\ HeadlinesOf(SubSeq(brief_parts, 1, Len(tickers))) = <<>>

\* C17: a retrieval that found no document takes the low-confidence
\* branch: the sentinel text is never sent in a prompt as retrieved context,
\* the prompt is the one holding the query alone, and the answer never
\* opens with the header of a retrieval answer.
C17_EmptyRetrievalFallsBack ==
  (Retrieved /\ h_docs = <<>>) =>
    LET prompt == h_calls[2].arg
    IN  /\ h_retrieved.content = SentinelText
        /\ h_retrieved.num = 0
        /\ ~Contains(prompt, SentinelText)
        /\ ~Contains(prompt, <<"Explain this based on context:\n\n">>)
        /\ prompt = <<"Explain this concept: ">> \o query
        /\ h_pc = "done" =>
             /\ h_response[1] = LowHeader
             /\ FoundHeader \notin Range(h_response)
             /\ h_response[Len(h_response)][1] \in GenTexts

\* an Explain query whose search found nothing was answered
C17_Witness ==
  /\ Retrieved
  /\ h_docs = <<>>
  /\ faiss_vectorstore.texts # <<>>
  /\ h_pc = "done"
  /\ h_response[1] = LowHeader

\* the call of get_market_brief of the running job ends with this step
BriefEnds(how) == b_pc # "idle" /\ b_pc' = "idle" /\ b_outcome' = how

\* C18: a scheduled regeneration changes the slot only as its call of
\* get_market_brief returns a value, and then the slot holds exactly that
\* value; as the call fails the slot is left as it was, and from then on
\* the read accessor still gives the brief of the last completed call, or
\* the message of the empty slot if there was none.
C18_RegenerationStoresOrKeeps ==
  /\ [][/\ last_market_brief' # last_market_brief => BriefEnds("returned")
        /\ BriefEnds("returned") =>
             /\ last_market_brief'.set
             /\ last_market_brief'.value = b_last'
             /\ b_last' \in CompleteBriefs
             /\ get_current_market_brief(last_market_brief') = b_last'
        /\ BriefEnds("raised") =>
             /\ last_market_brief' = last_market_brief
             /\ get_current_market_brief(last_market_brief')
                  = get_current_market_brief(last_market_brief)
        /\ (b_outcome = "raised" /\ read_out' # read_out) =>
             read_out' = IF b_completed THEN b_last
                         ELSE Verbatim(UnavailableText)]_vars
  /\ [](b_outcome = "raised" =>
          get_current_market_brief(last_market_brief)
            = IF b_completed THEN b_last ELSE Verbatim(UnavailableText))

\* the latest job failed after an earlier one had completed: the slot and
\* the value handed to a reader are the earlier brief
C18_Witness ==
  /\ b_outcome = "raised"
  /\ b_pc = "idle"
  /\ b_completed
  /\ last_market_brief.set
  /\ last_market_brief.value = b_last
  /\ b_last \in CompleteBriefs
  /\ read_out = b_last

\* the step in which retrieve_info_from_rag queries the index; the index it
\* queries is the one the step leaves
QueryStep == h_pc = "retrieve_info_from_rag" /\ h_pc' # h_pc

\* C19: whatever startup initialisations, added documents and retrievals
\* came before, the index a retrieval queries holds the seed corpus; so it
\* does when a document was added before any initialisation or retrieval.
C19_SeedAlwaysIndexed ==
  [][QueryStep =>
       /\ faiss_vectorstore'.created
       /\ SeedChunk \in Range(faiss_vectorstore'.texts)]_vars

\* the historical call has returned a well-formed series of closes: no
\* exception from the wrapper, no note, no information text
HistoricalSeriesReturned ==
  /\ HandleReturned
  /\ h_path = "Historical"
  /\ ~h_data[1].raised
  /\ ~TruthyText(h_data[1].data, "Note")
  /\ ~TruthyText(h_data[1].data, "Information")
  /\ TruthyColl(h_data[1].data, "Time Series (Daily)")
  /\ Len(series) >= 1
  /\ \A i \in DOMAIN series : series[i] >= 0

\* C20: on the historical path every well-formed series of one or more
\* non-negative closes, the oldest close of the window being 0 included,
\* is answered: the request returns a response and raises nothing.
C20_HistoricalNeverRaises ==
  HistoricalSeriesReturned =>
    /\ h_pc = "done"
    /\ h_response # NoResponse
    /\ Len(h_response) = 1

=============================================================================
